---- MODULE Spec2Model ----
(***************************************************************************)
(* Calendar synchronisation and bot dispatch job of minutemind             *)
(* (src/unnamed/part_000: handler, syncAllUserCalendars, syncUserCalendar, *)
(* refreshGoogleToken, handleDeletedEvent, handleDeletedEventFromDB,       *)
(* processEvent, scheduleBotsForUpcomingMeetings, canUserScheduleMeeting,  *)
(* incrementMeetingUsage) together with the bot-toggle route               *)
(* (src/app/api/meetings/[meetingId]/bot-toggle/route.ts).                 *)
(*                                                                         *)
(* Time is counted in units of five minutes.                               *)
(***************************************************************************)
EXTENDS Integers, Sequences, FiniteSets, TLC

VARIABLES
  now,        \* wall clock (new Date()), in five-minute units
  users,      \* prisma.user rows, by user id
  meetings,   \* prisma.meeting rows (a set of records)
  nextId,     \* number of meeting rows created so far (source of fresh row ids)
  pc,         \* position of the handler: "idle", "sync", "dispatch"
  syncQueue,  \* users of syncAllUserCalendars' findMany still to be synced (row snapshots)
  upcoming,   \* upcomingMeetings of the dispatcher still to be handled (row snapshots)
  env,        \* the environment of this behaviour: [cal, auth, faults, provider], fixed at the start
  ticks,      \* number of handler invocations so far
  lastSync,   \* history: what the latest syncUserCalendar run observed
  lastDisp,   \* history: what the latest dispatcher loop iteration did
  okCalls,    \* history: successful bot-deployment calls per meeting row id
  userOff,    \* history: meeting row ids the owner has switched off by bot-toggle
  parked,     \* pc, syncQueue, upcoming of a second, suspended handler invocation
  response,   \* statusCode the latest finished handler invocation returned
  failed      \* history: ids of stored, unsent rows whose latest bot-deployment call failed

vars == <<now, users, meetings, nextId, pc, syncQueue, upcoming, env, ticks,
          lastSync, lastDisp, okCalls, userOff, parked, response,
          failed>>

----------------------------------------------------------------------------
(* Bounds of the model *)

MaxTime == 2
MaxMeetingId == 3
MaxTicks == 2

(* Program constants, in five-minute units *)
RefreshMargin == 2
DispatchWindow == 1
StarterCap == 10
ProCap == 30
Unlimited == -1

----------------------------------------------------------------------------
(* Values *)

Null == "null"          \* SQL NULL / JavaScript null
Absent == "absent"      \* a field the provider's JSON does not carry
NoTime == -1            \* a null or absent timestamp
NoOutcome == "none"
NoResponse == 0         \* no invocation has returned since the latest one started

None == <<>>            \* optional list: absent
Some(x) == <<x>>        \* optional list: present

UserIds == {<<"u", 1>>, <<"u", 2>>}
MeetingId(n) == <<"m", n>>
MeetingIds == {MeetingId(n) : n \in 1..MaxMeetingId}
EventIds == {"e1", "e2"}

RECURSIVE SeqOf(_)
\* all orderings of a finite set, as sequences without repetition
SeqOf(S) ==
  IF S = {} THEN {<<>>}
  ELSE UNION {{<<x>> \o s : s \in SeqOf(S \ {x})} : x \in S}

----------------------------------------------------------------------------
(* Events as the calendar provider returns them (data.items).  A fetched  *)
(* list carries each event id at most once (singleEvents=true).           *)

EventStarts == {1, 2}

Payloads ==
  { [summary |-> "Standup", description |-> "agenda",
     hangoutLink |-> "meet/a", entryUri |-> "zoom/a",
     attendees |-> Some(<<[email |-> "ann@x", responseStatus |-> "accepted"],
                          [email |-> "bob@x", responseStatus |-> "needsAction"]>>)],
    [summary |-> Absent, description |-> Absent,
     hangoutLink |-> Absent, entryUri |-> "zoom/b",
     attendees |-> None] }

NoLinkPayload ==
  [summary |-> "Lunch", description |-> Absent,
   hangoutLink |-> Absent, entryUri |-> Absent, attendees |-> None]

RawEvent(e, st, p, start) ==
  [id |-> e, status |-> st, summary |-> p.summary, description |-> p.description,
   hangoutLink |-> p.hangoutLink, entryUri |-> p.entryUri,
   startDateTime |-> start,
   endDateTime |-> IF start = NoTime THEN NoTime ELSE start + 1,
   attendees |-> p.attendees]

FirstPayload == CHOOSE p \in Payloads : p.hangoutLink # Absent
SecondPayload == CHOOSE p \in Payloads : p.hangoutLink = Absent

\* a rich calendar: complete events of two kinds, an all-day event (no
\* start.dateTime), an event without conferencing link, a cancelled event
RichEvents ==
  UNION {{RawEvent(e, "confirmed", FirstPayload, 1),
          RawEvent(e, "confirmed", SecondPayload, 2),
          RawEvent(e, "confirmed", FirstPayload, NoTime),
          RawEvent(e, "confirmed", NoLinkPayload, 1),
          RawEvent(e, "cancelled", NoLinkPayload, NoTime)} : e \in EventIds}

\* a calendar that only holds complete, live events of one kind
SimpleEvents ==
  {RawEvent(e, "confirmed", FirstPayload, s) : e \in EventIds, s \in EventStarts}

\* a calendar that holds one event, which may be cancelled
SingleEvents ==
  {RawEvent("e1", "confirmed", FirstPayload, 1),
   RawEvent("e1", "cancelled", NoLinkPayload, NoTime)}

\* the lists a fetch may return from a pool of events: one event for each
\* id of an ordering of some ids
RECURSIVE ListsOver(_, _)
ListsOver(q, pool) ==
  IF q = <<>> THEN {<<>>}
  ELSE {<<ev>> \o rest : ev \in {x \in pool : x.id = Head(q)},
                         rest \in ListsOver(Tail(q), pool)}

FetchLists(pool) ==
  UNION {ListsOver(q, pool) : q \in UNION {SeqOf(S) : S \in SUBSET EventIds}}

RichLists == FetchLists(RichEvents)
SimpleLists == FetchLists(SimpleEvents)
SingleLists == FetchLists(SingleEvents)

\* a calendar that holds two complete, live events starting together
PairLists ==
  {<<RawEvent("e1", "confirmed", FirstPayload, 1),
     RawEvent("e2", "confirmed", FirstPayload, 1)>>}

ListsOf(kind) ==
  CASE kind = "rich" -> RichLists
    [] kind = "pair" -> PairLists
    [] kind = "simple" -> SimpleLists
    [] kind = "single" -> SingleLists
    [] OTHER -> {<<>>}

----------------------------------------------------------------------------
(* Event Normalizer: eventData of processEvent *)

MeetingUrlOf(event) ==
  IF event.hangoutLink # Absent THEN event.hangoutLink ELSE event.entryUri

RECURSIVE Emails(_)
Emails(as) == IF as = <<>> THEN <<>> ELSE <<Head(as).email>> \o Emails(Tail(as))

EventData(user, event) ==
  [calendarEventId |-> event.id,
   userId |-> user.id,
   title |-> IF event.summary # Absent THEN event.summary ELSE "Untitled Meeting",
   description |-> IF event.description # Absent THEN event.description ELSE Null,
   meetingUrl |-> MeetingUrlOf(event),
   startTime |-> event.startDateTime,
   endTime |-> event.endDateTime,
   attendees |-> IF event.attendees # None THEN Some(Emails(event.attendees[1])) ELSE None,
   isFromCalendar |-> TRUE,
   botScheduled |-> TRUE]

\* a new meeting row: eventData plus the column defaults
NewRow(id, data) ==
  [id |-> id,
   calendarEventId |-> data.calendarEventId, userId |-> data.userId,
   title |-> data.title, description |-> data.description,
   meetingUrl |-> data.meetingUrl, startTime |-> data.startTime,
   endTime |-> data.endTime, attendees |-> data.attendees,
   isFromCalendar |-> data.isFromCalendar, botScheduled |-> data.botScheduled,
   botSent |-> FALSE, botId |-> Null, botJoinedAt |-> NoTime]

----------------------------------------------------------------------------
(* Store operations of the reconciler.  S = [rows, nextId] is the meeting  *)
(* table while one syncUserCalendar run works on it.                       *)

\* a lookup that never finds the record
FindNothing(rows, e) == {}

\* prisma.meeting.findUnique({where: {calendarEventId}})
FindUnique(rows, e) == {r \in rows : r.calendarEventId = e}

\* Skipped without the start.dateTime test
SkippedNoLinkOnly(event) == MeetingUrlOf(event) = Absent

\* the event is skipped: no meeting URL or no start.dateTime
Skipped(event) == MeetingUrlOf(event) = Absent \/ event.startDateTime = NoTime

\* UpdatedRow that also resets the dispatch state of the record
UpdatedRowResetting(r, data) ==
  [r EXCEPT !.title = data.title, !.description = data.description,
            !.meetingUrl = data.meetingUrl, !.startTime = data.startTime,
            !.endTime = data.endTime, !.attendees = data.attendees,
            !.botScheduled = data.botScheduled, !.botSent = FALSE]

\* UpdatedRow that writes botScheduled whether or not the bot was sent
UpdatedRowAlways(r, data) ==
  [r EXCEPT !.title = data.title, !.description = data.description,
            !.meetingUrl = data.meetingUrl, !.startTime = data.startTime,
            !.endTime = data.endTime, !.attendees = data.attendees,
            !.botScheduled = data.botScheduled]

\* updateData of processEvent applied to an existing row
UpdatedRow(r, data) ==
  LET u == [r EXCEPT !.title = data.title, !.description = data.description,
                     !.meetingUrl = data.meetingUrl, !.startTime = data.startTime,
                     !.endTime = data.endTime, !.attendees = data.attendees]
  IN IF ~r.botSent THEN [u EXCEPT !.botScheduled = data.botScheduled] ELSE u

\* fault: the store operation of this call throws (caught and logged inside)
processEvent(S, user, event, fault) ==
  IF Skipped(event) THEN S
  ELSE IF fault THEN S
  ELSE LET data == EventData(user, event)
           existing == FindUnique(S.rows, event.id)
       IN IF existing # {}
          THEN [S EXCEPT !.rows = (S.rows \ existing)
                                  \cup {UpdatedRow(r, data) : r \in existing}]
          ELSE [rows |-> S.rows \cup {NewRow(MeetingId(S.nextId + 1), data)},
                nextId |-> S.nextId + 1]

\* handleDeletedEvent that leaves the record in place
handleDeletedEventKeeping(S, event, fault) == S

\* fault: the store operation of this call throws (caught and logged inside)
handleDeletedEvent(S, event, fault) ==
  IF fault THEN S
  ELSE [S EXCEPT !.rows = S.rows \ FindUnique(S.rows, event.id)]

\* prisma.meeting.delete({where: {id: dbEvent.id}}); throws when no row has that id
handleDeletedEventFromDB(S, dbEvent) ==
  LET hit == {r \in S.rows : r.id = dbEvent.id}
  IN IF hit = {} THEN [S |-> S, threw |-> TRUE]
     ELSE [S |-> [S EXCEPT !.rows = S.rows \ hit], threw |-> FALSE]

\* the loop over data.items, from position i on
RECURSIVE EventLoop(_, _, _, _, _)
EventLoop(S, user, events, i, faults) ==
  IF i > Len(events) THEN S
  ELSE LET event == events[i]
           S1 == IF event.status = "cancelled"
                 THEN handleDeletedEvent(S, event, i \in faults)
                 ELSE processEvent(S, user, event, i \in faults)
       IN EventLoop(S1, user, events, i + 1, faults)

\* googleEventIds after the loop
GoogleEventIds(events) ==
  {events[i].id : i \in {j \in 1..Len(events) : events[j].status # "cancelled"}}

\* existingEvents: the user's upcoming calendar rows, read before the loop
ExistingEvents(rows, user, t) ==
  {r \in rows : r.userId = user.id /\ r.isFromCalendar /\ r.startTime >= t}

\* the loop over deletedEvents: n calls handleDeletedEventFromDB(user, deletedEvent),
\* whose only parameter dbEvent is therefore bound to the user row
RECURSIVE DeleteLoop(_, _, _)
DeleteLoop(S, user, n) ==
  IF n = 0 THEN [S |-> S, threw |-> FALSE]
  ELSE LET d == handleDeletedEventFromDB(S, user)
       IN IF d.threw THEN d ELSE DeleteLoop(d.S, user, n - 1)

\* the part of syncUserCalendar after a successful fetch (lines 119-157)
Reconcile(S, user, events, t, faults) ==
  LET existingEvents == ExistingEvents(S.rows, user, t)
      S1 == EventLoop(S, user, events, 1, faults)
      deletedEvents == {r \in existingEvents :
                          r.calendarEventId \notin GoogleEventIds(events)}
  IN DeleteLoop(S1, user, Cardinality(deletedEvents))

----------------------------------------------------------------------------
(* Credential Manager *)

\* a token endpoint whose new token is the old one
SameToken(t) == t

\* tokens.access_token: a token different from the stored one
NextToken(t) == IF t = "tokA" THEN "tokB" ELSE "tokA"
Lifetimes == {1, 12}     \* expires_in reported by the token endpoint

\* prisma.user.update({where: {id}, data}) on the user table
\* Deauthorized that keeps the access token
DeauthorizedFlagOnly(us, id) == [us EXCEPT ![id].calendarConnected = FALSE]
Deauthorized(us, id) ==
  [us EXCEPT ![id].calendarConnected = FALSE, ![id].googleAccessToken = Null]
Disconnected(us, id) == [us EXCEPT ![id].calendarConnected = FALSE]

\* outcome: what the token endpoint does: "ok" (a body with access_token),
\*   "rejected" (a body without access_token), "throws" (network error, no JSON body)
\* k: how many of the user updates of this call throw, in order
\* Result: the user table, the returned token (Null: unavailable), whether the
\* token endpoint was called, whether an error escaped the function.
refreshGoogleToken(us, user, outcome, lifetime, t, k) ==
  LET inCatch == IF k >= 2
                 THEN [users |-> us, token |-> Null, threw |-> TRUE]
                 ELSE [users |-> Disconnected(us, user.id), token |-> Null, threw |-> FALSE]
      catch1 == IF k >= 1
                THEN [users |-> us, token |-> Null, threw |-> TRUE]
                ELSE [users |-> Disconnected(us, user.id), token |-> Null, threw |-> FALSE]
  IN IF user.googleRefreshToken = Null
     THEN (IF k >= 1 THEN inCatch
           ELSE [users |-> Deauthorized(us, user.id), token |-> Null, threw |-> FALSE])
          @@ [called |-> FALSE]
     ELSE (CASE outcome = "throws" -> catch1
             [] outcome = "rejected" ->
                  IF k >= 1 THEN inCatch
                  ELSE [users |-> Disconnected(us, user.id), token |-> Null, threw |-> FALSE]
             [] OTHER ->
                  IF k >= 1 THEN inCatch
                  ELSE [users |-> [us EXCEPT
                                     ![user.id].googleAccessToken = NextToken(user.googleAccessToken),
                                     ![user.id].googleTokenExpiry = t + lifetime],
                        token |-> NextToken(user.googleAccessToken), threw |-> FALSE])
          @@ [called |-> TRUE]

----------------------------------------------------------------------------
(* Quota Evaluator *)

PLAN_LIMITS(plan) ==
  CASE plan = "free" -> 0
    [] plan = "starter" -> StarterCap
    [] plan = "pro" -> ProCap
    [] plan = "premium" -> Unlimited
    [] OTHER -> 0

\* canUserScheduleMeeting that still allows a meeting at the cap
canUserScheduleMeetingAtCap(user) ==
  LET limits == PLAN_LIMITS(user.currentPlan)
  IN IF user.currentPlan = "free" \/ user.subscriptionStatus # "active"
     THEN [allowed |-> FALSE,
           reason |-> IF user.currentPlan = "free" THEN "Free plan" ELSE "Inactive subscription"]
     ELSE IF limits # Unlimited /\ user.meetingsThisMonth > limits
     THEN [allowed |-> FALSE, reason |-> "Monthly limit reached"]
     ELSE [allowed |-> TRUE, reason |-> "ok"]

canUserScheduleMeeting(user) ==
  LET limits == PLAN_LIMITS(user.currentPlan)
  IN IF user.currentPlan = "free" \/ user.subscriptionStatus # "active"
     THEN [allowed |-> FALSE,
           reason |-> IF user.currentPlan = "free" THEN "Free plan" ELSE "Inactive subscription"]
     ELSE IF limits # Unlimited /\ user.meetingsThisMonth >= limits
     THEN [allowed |-> FALSE, reason |-> "Monthly limit reached"]
     ELSE [allowed |-> TRUE, reason |-> "ok"]

\* fault: the update throws (caught and logged inside)
incrementMeetingUsage(us, userId, fault) ==
  IF fault THEN us
  ELSE [us EXCEPT ![userId].meetingsThisMonth = @ + 1]

----------------------------------------------------------------------------
(* Initial state: an empty meeting table and two connected accounts *)

FarExpiry == MaxTime + RefreshMargin + 1

Profiles ==
  { [currentPlan |-> "starter", subscriptionStatus |-> "active", meetingsThisMonth |-> StarterCap - 1],
    [currentPlan |-> "pro", subscriptionStatus |-> "active", meetingsThisMonth |-> ProCap],
    [currentPlan |-> "premium", subscriptionStatus |-> "active", meetingsThisMonth |-> ProCap],
    [currentPlan |-> "pro", subscriptionStatus |-> "canceled", meetingsThisMonth |-> 0],
    [currentPlan |-> "free", subscriptionStatus |-> "active", meetingsThisMonth |-> 0] }

UserRow(id, refreshToken, expiry, p) ==
  [id |-> id, calendarConnected |-> TRUE, googleAccessToken |-> "tokA",
   googleRefreshToken |-> refreshToken, googleTokenExpiry |-> expiry,
   currentPlan |-> p.currentPlan, subscriptionStatus |-> p.subscriptionStatus,
   meetingsThisMonth |-> p.meetingsThisMonth]

NoSync ==
  [user |-> <<"u", 0>>, refresh |-> NoOutcome, token |-> Null, status |-> -1,
   events |-> <<>>, faults |-> {}, threw |-> FALSE, at |-> 0]

NoDisp ==
  [meeting |-> <<"m", 0>>, user |-> <<"u", 0>>, allowed |-> FALSE, usage |-> 0,
   call |-> NoOutcome, at |-> 0]

Premium == CHOOSE q \in Profiles : q.currentPlan = "premium"

\* e: the environment; P: the plans of account 1; C: the credentials of account 2
InitWith(e, P, C) ==
  /\ now = 0
  /\ \E p \in P, c \in C :
       users = [u \in UserIds |->
                  IF u = <<"u", 1>> THEN UserRow(u, "rt", FarExpiry, p)
                  ELSE UserRow(u, c[1], c[2], Premium)]
  /\ meetings = {}
  /\ nextId = 0
  /\ pc = "idle"
  /\ syncQueue = <<>>
  /\ upcoming = <<>>
  /\ env = e
  /\ ticks = 0
  /\ lastSync = NoSync
  /\ lastDisp = NoDisp
  /\ okCalls = [m \in MeetingIds |-> 0]
  /\ userOff = {}
  /\ parked = [pc |-> "idle", syncQueue |-> <<>>, upcoming |-> <<>>]
  /\ response = NoResponse
  /\ failed = {}

Calendars(k1, k2) == [u \in UserIds |-> IF u = <<"u", 1>> THEN k1 ELSE k2]
Credentials == {"rt", Null} \X {RefreshMargin, FarExpiry}

Environment(k1, k2, auth, faults, provider) ==
  [cal |-> Calendars(k1, k2), auth |-> auth, faults |-> faults, provider |-> provider]

\* two small calendars, whose owners switch bots on and off
Init ==
  InitWith(Environment("simple", "empty", FALSE, FALSE, FALSE),
           {Premium}, {<<"rt", FarExpiry>>})
\* reconciliation against a rich calendar
InitSync ==
  InitWith(Environment("rich", "single", FALSE, FALSE, FALSE),
           {Premium}, {<<"rt", FarExpiry>>})
\* dispatch under every plan
InitDispatch ==
  InitWith(Environment("simple", "empty", FALSE, FALSE, TRUE),
           Profiles, {<<"rt", FarExpiry>>})
\* credentials that expire, cannot be refreshed, or are rejected
InitCred ==
  InitWith(Environment("single", "single", TRUE, FALSE, FALSE),
           {Premium}, Credentials)
\* a store whose single operations may fail
InitFault ==
  InitWith(Environment("single", "empty", TRUE, TRUE, TRUE),
           {p \in Profiles : p.currentPlan \in {"starter", "free"}}, {<<"rt", 1>>})

\* every tier, subscription status and usage around the caps
QuotaInputs ==
  [currentPlan : {"free", "starter", "pro", "premium"},
   subscriptionStatus : {"active", "canceled", "inactive"},
   meetingsThisMonth : {0, StarterCap - 1, StarterCap, StarterCap + 1,
                        ProCap - 1, ProCap, ProCap + 1}]
InitQuota ==
  InitWith(Environment("single", "empty", FALSE, FALSE, FALSE),
           QuotaInputs, {<<"rt", FarExpiry>>})

\* one meeting per account, one quota slot left or no cap at all
InitOverlap ==
  InitWith(Environment("single", "empty", FALSE, FALSE, FALSE),
           {p \in Profiles : p.currentPlan \in {"starter", "premium"}},
           {<<"rt", FarExpiry>>})

\* two meetings of one account due together, the second account without a
\* refresh credential, on a store whose single operations may fail
InitIsolation ==
  InitWith(Environment("pair", "empty", TRUE, TRUE, TRUE),
           {p \in Profiles : p.currentPlan \in {"starter", "free"}}, {<<Null, 1>>})

Faults == IF env.faults THEN BOOLEAN ELSE {FALSE}

----------------------------------------------------------------------------
(* The handler *)

\* Selected that looks at the access token only
SelectedByToken(user) == user.googleAccessToken # Null

\* the where clause of syncAllUserCalendars' findMany
Selected(user) == user.calendarConnected /\ user.googleAccessToken # Null

\* handler entered; syncAllUserCalendars reads the users to sync
syncAllUserCalendars ==
  /\ pc = "idle"
  /\ ticks < MaxTicks
  /\ ticks' = ticks + 1
  /\ \E q \in SeqOf({users[u] : u \in {v \in UserIds : Selected(users[v])}}) :
       syncQueue' = q
  /\ pc' = "sync"
  /\ lastSync' = NoSync /\ lastDisp' = NoDisp
  /\ response' = NoResponse
  /\ UNCHANGED <<now, users, meetings, nextId, upcoming, env, okCalls, userOff, parked, failed>>

FetchStatuses == {0, 200, 401, 403, 500}    \* 0: the fetch itself throws (network error)
Statuses == IF env.auth THEN FetchStatuses ELSE {200, 500}

\* MessageNamesAuth matching every error status
MessageNamesAnyError(status) == status >= 400

\* error.message.includes("401") || error.message.includes("403"), for the
\* message `Calendar API failed: ${response.status}`
MessageNamesAuth(status) == status \in {401, 403}

\* NeedsRefresh that lets a credential expiring exactly at the margin pass
NeedsRefreshInsideOnly(user, t) == user.googleTokenExpiry < t + RefreshMargin

\* the credential expires within ten minutes: tokenExpiry <= tenMinutesFromNow
NeedsRefresh(user, t) == user.googleTokenExpiry <= t + RefreshMargin

\* one run of syncUserCalendar for the next user of the loop.
\*   o, lifetime, k: the token endpoint's behaviour and failing user updates
\*   st, events: the calendar fetch's status and items
\*   faults: positions of data.items whose store operation throws
\*   uf: the user update that disconnects the calendar throws
SyncRun(user, o, lifetime, k, st, events, faults, uf) ==
  LET needRefresh == NeedsRefresh(user, now)
      R == IF needRefresh
           THEN refreshGoogleToken(users, user, o, lifetime, now, k)
           ELSE [users |-> users, token |-> user.googleAccessToken,
                 threw |-> FALSE, called |-> FALSE]
      S0 == [rows |-> meetings, nextId |-> nextId]
      fetched == ~R.threw /\ R.token # Null
      D == IF fetched /\ st = 200
           THEN Reconcile(S0, user, events, now, faults)
           ELSE [S |-> S0, threw |-> FALSE]
      disconnect == fetched /\ (st = 401 \/ (st # 200 /\ st # 0 /\ MessageNamesAuth(st)))
  IN [users |-> IF disconnect /\ ~uf THEN Disconnected(R.users, user.id) ELSE R.users,
      S |-> D.S,
      \* an error leaves syncUserCalendar when the update in its catch block throws
      escaped |-> fetched /\ st # 401 /\ disconnect /\ uf,
      log |-> [user |-> user.id,
               refresh |-> IF ~needRefresh THEN NoOutcome
                           ELSE IF ~R.called THEN "noRefreshToken" ELSE o,
               token |-> IF fetched THEN R.token ELSE Null,
               status |-> IF fetched THEN st ELSE -1,
               events |-> IF fetched /\ st = 200 THEN events ELSE <<>>,
               faults |-> faults,
               threw |-> R.threw \/ D.threw \/ (fetched /\ st \notin {200, 401}),
               at |-> now]]

\* a loop over the users without its try/catch
syncLoopRethrows(escaped) == escaped

\* whether an error that left syncUserCalendar also leaves the loop of
\* syncAllUserCalendars: its catch logs the error and goes on
syncLoopPropagates(escaped) == FALSE

syncUserCalendar ==
  /\ pc = "sync"
  /\ syncQueue # <<>>
  /\ LET user == Head(syncQueue)
         needRefresh == NeedsRefresh(user, now)
     IN \E o \in (IF needRefresh /\ user.googleRefreshToken # Null
                  THEN {"ok", "rejected", "throws"} ELSE {NoOutcome}),
           k \in (IF needRefresh /\ env.faults THEN 0..2 ELSE {0}),
           st \in Statuses :
        \E lifetime \in (IF o = "ok" THEN Lifetimes ELSE {1}),
           events \in (IF st = 200 THEN ListsOf(env.cal[user.id]) ELSE {<<>>}),
           uf \in (IF st \in {401, 403} THEN Faults ELSE {FALSE}) :
        \E faults \in (IF env.faults THEN SUBSET (1..Len(events)) ELSE {{}}) :
          LET r == SyncRun(user, o, lifetime, k, st, events, faults, uf)
          IN /\ r.S.nextId <= MaxMeetingId
             /\ users' = r.users
             /\ meetings' = r.S.rows
             /\ nextId' = r.S.nextId
             /\ lastSync' = r.log
             /\ failed' = failed \cap {x.id : x \in r.S.rows}
             /\ IF syncLoopPropagates(r.escaped)
                THEN pc' = "idle" /\ syncQueue' = <<>> /\ response' = 500
                ELSE pc' = pc /\ syncQueue' = Tail(syncQueue) /\ response' = response
  /\ UNCHANGED <<now, upcoming, env, ticks, lastDisp, okCalls, userOff, parked>>

----------------------------------------------------------------------------
(* Bot Dispatcher *)

\* Due that leaves out a meeting starting exactly now
DueStrictlyLater(r, t) ==
  /\ r.startTime > t
  /\ r.startTime <= t + DispatchWindow
  /\ r.botScheduled
  /\ ~r.botSent
  /\ r.meetingUrl # Null

\* Due without the lower bound on the start time
DueOrPast(r, t) ==
  /\ r.startTime <= t + DispatchWindow
  /\ r.botScheduled
  /\ ~r.botSent
  /\ r.meetingUrl # Null

\* Due without the botSent filter
DueIgnoringSent(r, t) ==
  /\ r.startTime >= t
  /\ r.startTime <= t + DispatchWindow
  /\ r.botScheduled
  /\ r.meetingUrl # Null

\* the where clause of upcomingMeetings
Due(r, t) ==
  /\ r.startTime >= t
  /\ r.startTime <= t + DispatchWindow
  /\ r.botScheduled
  /\ ~r.botSent
  /\ r.meetingUrl # Null

\* scheduleBotsForUpcomingMeetings entered: findMany with include: {user: true}
scheduleBotsForUpcomingMeetings ==
  /\ pc = "sync"
  /\ syncQueue = <<>>
  /\ \E q \in SeqOf({[meeting |-> r, user |-> users[r.userId]] :
                       r \in {x \in meetings : Due(x, now)}}) :
       upcoming' = q
  /\ pc' = "dispatch"
  /\ lastSync' = NoSync /\ lastDisp' = NoDisp
  /\ UNCHANGED <<now, users, meetings, nextId, syncQueue, env, ticks, okCalls, userOff, parked, response, failed>>

\* prisma.meeting.update({where: {id}, data}); throws when no row has that id
HasRow(rows, id) == \E r \in rows : r.id = id
MarkSent(rows, id, botId, t) ==
  {IF r.id = id THEN [r EXCEPT !.botSent = TRUE, !.botId = botId, !.botJoinedAt = t]
   ELSE r : r \in rows}
\* MarkDenied that sets the timestamp but forgets botSent
MarkDeniedTimeOnly(rows, id, t) ==
  {IF r.id = id THEN [r EXCEPT !.botJoinedAt = t] ELSE r : r \in rows}
MarkDenied(rows, id, t) ==
  {IF r.id = id THEN [r EXCEPT !.botSent = TRUE, !.botJoinedAt = t]
   ELSE r : r \in rows}

Bump(n) == IF n < 2 THEN n + 1 ELSE n

\* one iteration of the loop over upcomingMeetings.
\*   call: what the bot-deployment provider does: "ok", "http_error", "network"
\*   mf: the meeting update throws;  cf: the usage update throws
DispatchRun(item, call, mf, cf) ==
  LET meeting == item.meeting
      canSchedule == canUserScheduleMeeting(item.user)
      writable == HasRow(meetings, meeting.id) /\ ~mf
  IN IF ~canSchedule.allowed
     THEN [rows |-> IF writable THEN MarkDenied(meetings, meeting.id, now) ELSE meetings,
           users |-> users, call |-> NoOutcome, allowed |-> FALSE, threw |-> ~writable]
     ELSE IF call # "ok"
     THEN [rows |-> meetings, users |-> users, call |-> call, allowed |-> TRUE,
           threw |-> TRUE]
     ELSE IF ~writable
     THEN [rows |-> meetings, users |-> users, call |-> call, allowed |-> TRUE,
           threw |-> TRUE]
     ELSE [rows |-> MarkSent(meetings, meeting.id, "bot", now),
           users |-> incrementMeetingUsage(users, meeting.userId, cf),
           call |-> call, allowed |-> TRUE, threw |-> FALSE]

\* a loop over the meetings without its try/catch
dispatchLoopRethrows(threw) == threw

\* whether an error thrown in the body of the loop over upcomingMeetings
\* leaves the loop: its catch logs the error and goes on
dispatchLoopPropagates(threw) == FALSE

\* what the bot-deployment provider may answer in this environment
CallOutcomes == IF env.provider THEN {"ok", "http_error", "network"} ELSE {"ok"}

dispatchMeeting ==
  /\ pc = "dispatch"
  /\ upcoming # <<>>
  /\ LET item == Head(upcoming)
         allowed == canUserScheduleMeeting(item.user).allowed
     IN \E call \in (IF allowed THEN CallOutcomes ELSE {NoOutcome}),
           mf \in Faults :
        \E cf \in (IF allowed /\ call = "ok" /\ ~mf THEN Faults ELSE {FALSE}) :
          LET r == DispatchRun(item, call, mf, cf)
          IN /\ meetings' = r.rows
             /\ users' = r.users
             /\ okCalls' = IF r.call = "ok"
                           THEN [okCalls EXCEPT ![item.meeting.id] = Bump(@)]
                           ELSE okCalls
             /\ lastDisp' = [meeting |-> item.meeting.id, user |-> item.meeting.userId,
                             allowed |-> r.allowed,
                             usage |-> users[item.meeting.userId].meetingsThisMonth,
                             call |-> r.call, at |-> now]
             /\ IF dispatchLoopPropagates(r.threw)
                THEN pc' = "idle" /\ upcoming' = <<>> /\ response' = 500
                ELSE pc' = pc /\ upcoming' = Tail(upcoming) /\ response' = response
             /\ failed' = IF r.call \in {"http_error", "network"}
                          THEN failed \cup {item.meeting.id}
                          ELSE failed \ {x.id : x \in {y \in r.rows : y.botSent}}
  /\ lastSync' = NoSync
  /\ UNCHANGED <<now, nextId, syncQueue, env, ticks, userOff, parked>>

\* the handler returns
handlerReturn ==
  /\ pc = "dispatch"
  /\ upcoming = <<>>
  /\ pc' = "idle"
  /\ response' = 200
  /\ lastSync' = NoSync /\ lastDisp' = NoDisp
  /\ UNCHANGED <<now, users, meetings, nextId, syncQueue, upcoming, env, ticks, okCalls, userOff, parked, failed>>

----------------------------------------------------------------------------
(* The environment *)

\* POST /api/meetings/[meetingId]/bot-toggle by the owner of the meeting
botToggle ==
  /\ \E r \in meetings, botScheduled \in BOOLEAN :
       /\ r.botScheduled # botScheduled
       /\ meetings' = (meetings \ {r}) \cup {[r EXCEPT !.botScheduled = botScheduled]}
       /\ userOff' = IF botScheduled THEN userOff \ {r.id}
                     ELSE IF r.botSent THEN userOff ELSE userOff \cup {r.id}
  /\ lastSync' = NoSync /\ lastDisp' = NoDisp
  /\ UNCHANGED <<now, users, nextId, pc, syncQueue, upcoming, env, ticks, okCalls, parked, response, failed>>

\* five minutes pass
clockTick ==
  /\ pc = "idle"
  /\ now < MaxTime
  /\ now' = now + 1
  /\ lastSync' = NoSync /\ lastDisp' = NoDisp
  /\ UNCHANGED <<users, meetings, nextId, pc, syncQueue, upcoming, env, ticks, okCalls, userOff, parked, response, failed>>

\* the findMany of syncAllUserCalendars throws: the handler returns the error
selectionQueryFails ==
  /\ pc = "idle"
  /\ ticks < MaxTicks
  /\ ticks' = ticks + 1
  /\ response' = 500
  /\ lastSync' = NoSync /\ lastDisp' = NoDisp
  /\ UNCHANGED <<now, users, meetings, nextId, pc, syncQueue, upcoming, env, okCalls,
                 userOff, parked, failed>>

\* the findMany of scheduleBotsForUpcomingMeetings throws: the handler returns the error
dueQueryFails ==
  /\ pc = "sync"
  /\ syncQueue = <<>>
  /\ pc' = "idle"
  /\ response' = 500
  /\ lastSync' = NoSync /\ lastDisp' = NoDisp
  /\ UNCHANGED <<now, users, meetings, nextId, syncQueue, upcoming, env, ticks, okCalls,
                 userOff, parked, failed>>

\* a second invocation of the handler overlaps the first one: the running
\* invocation is suspended between two of its awaits and the other one runs
switchInvocation ==
  /\ pc # "idle" \/ parked.pc # "idle"
  /\ parked' = [pc |-> pc, syncQueue |-> syncQueue, upcoming |-> upcoming]
  /\ pc' = parked.pc
  /\ syncQueue' = parked.syncQueue
  /\ upcoming' = parked.upcoming
  /\ lastSync' = NoSync /\ lastDisp' = NoDisp
  /\ UNCHANGED <<now, users, meetings, nextId, env, ticks, okCalls, userOff, response, failed>>

\* the job alone
Engine ==
  \/ syncAllUserCalendars
  \/ syncUserCalendar
  \/ scheduleBotsForUpcomingMeetings
  \/ dispatchMeeting
  \/ handlerReturn
  \/ clockTick

\* the job and the owners of the meetings
Next ==
  \/ syncAllUserCalendars
  \/ syncUserCalendar
  \/ scheduleBotsForUpcomingMeetings
  \/ dispatchMeeting
  \/ handlerReturn
  \/ clockTick
  \/ botToggle

\* the job, invoked again while an invocation is still running
Overlapping ==
  \/ syncAllUserCalendars
  \/ syncUserCalendar
  \/ scheduleBotsForUpcomingMeetings
  \/ dispatchMeeting
  \/ handlerReturn
  \/ clockTick
  \/ switchInvocation

\* the job on a store whose queries may fail
Failing ==
  \/ syncAllUserCalendars
  \/ syncUserCalendar
  \/ scheduleBotsForUpcomingMeetings
  \/ dispatchMeeting
  \/ handlerReturn
  \/ clockTick
  \/ selectionQueryFails
  \/ dueQueryFails

Spec == Init /\ [][Next]_vars
SpecSync == InitSync /\ [][Engine]_vars
SpecDispatch == InitDispatch /\ [][Engine]_vars
SpecCred == InitCred /\ [][Engine]_vars
SpecFault == InitFault /\ [][Failing]_vars
SpecIsolation == InitIsolation /\ [][Failing]_vars
SpecQuota == InitQuota /\ [][Engine]_vars
SpecOverlap == InitOverlap /\ [][Overlapping]_vars

----------------------------------------------------------------------------
(* Vocabulary of the properties *)

\* this step is a syncUserCalendar run / a dispatcher loop iteration
SyncStep == pc = "sync" /\ syncQueue # <<>> /\ syncQueue' = Tail(syncQueue)
DispatchStep == pc = "dispatch" /\ upcoming # <<>> /\ upcoming' = Tail(upcoming)

Synced == lastSync.user \in UserIds          \* the previous step was a sync run
Dispatched == lastDisp.user \in UserIds      \* the previous step handled a meeting
FetchOk == Synced /\ lastSync.status = 200 /\ lastSync.faults = {}

RowsOf(id) == {r \in meetings : r.id = id}
LiveEvents(events) ==
  {events[i] : i \in {j \in 1..Len(events) : events[j].status # "cancelled"}}
FiniteCap(plan) == plan \in {"starter", "pro"}
CapOf(plan) == IF plan = "starter" THEN StarterCap ELSE ProCap
\* the event lacks a join URL or a start datetime
Incomplete(ev) ==
  \/ (ev.hangoutLink = Absent /\ ev.entryUri = Absent)
  \/ ev.startDateTime = NoTime
\* marked sent without a bot: the mark of a quota denial
DenyMarked(r) == r.botSent /\ r.botId = Null

----------------------------------------------------------------------------
(* C1: after a reconciliation run whose fetch succeeded, no upcoming       *)
(* calendar-origin record of that account is left whose external-event id  *)
(* is not among the non-cancelled fetched events.                          *)
C1_StaleRecordsDeleted ==
  FetchOk =>
    \A r \in meetings :
      (r.userId = lastSync.user /\ r.isFromCalendar /\ r.startTime >= lastSync.at)
        => r.calendarEventId \in {ev.id : ev \in LiveEvents(lastSync.events)}

(* C2: for a starter or pro account the provider is never called while the *)
(* stored usage counter is at or above the cap, and the counter never      *)
(* exceeds the cap, also with several due meetings of the account in one   *)
(* tick.                                                                   *)
C2_CapRespected ==
  /\ (Dispatched /\ lastDisp.call # NoOutcome
        /\ FiniteCap(users[lastDisp.user].currentPlan))
       => lastDisp.usage < CapOf(users[lastDisp.user].currentPlan)
  /\ \A u \in UserIds :
       FiniteCap(users[u].currentPlan)
         => users[u].meetingsThisMonth <= CapOf(users[u].currentPlan)

(* C3: the provider is called successfully at most once per record; a call *)
(* for a record is made only when no earlier call for it succeeded; after   *)
(* a successful call the record is marked sent with the bot id and no       *)
(* later tick selects it.                                                   *)
C3_DispatchOnce ==
  /\ \A m \in MeetingIds : okCalls[m] <= 1
  /\ (Dispatched /\ lastDisp.call # NoOutcome)
       => okCalls[lastDisp.meeting] = (IF lastDisp.call = "ok" THEN 1 ELSE 0)
  /\ \A r \in meetings : okCalls[r.id] >= 1 => (r.botSent /\ r.botId = "bot")
  /\ \A i \in 1..Len(upcoming) : okCalls[upcoming[i].meeting.id] = 0

\* a second tick has selected its meetings while a record dispatched by the
\* first tick is still inside the window
C3_Witness ==
  /\ ticks = 2 /\ pc = "dispatch" /\ lastDisp = NoDisp
  /\ \E r \in meetings :
       /\ okCalls[r.id] = 1
       /\ r.botScheduled /\ r.startTime >= now /\ r.startTime <= now + DispatchWindow

(* C4: after the dispatcher has handled a meeting, also when a store write *)
(* failed, the record is marked sent with a bot id if and only if the       *)
(* account's usage counter went up by exactly one.                          *)
C4_MarkedIffCounted ==
  Dispatched =>
    LET markedWithBot == \E r \in RowsOf(lastDisp.meeting) : r.botSent /\ r.botId # Null
        usage == users[lastDisp.user].meetingsThisMonth
    IN /\ markedWithBot <=> (usage = lastDisp.usage + 1)
       /\ ~markedWithBot => (usage = lastDisp.usage)

(* C5: a selected meeting whose account the quota evaluator denies is, in  *)
(* that pass, marked sent with the bot-joined time set, without a provider  *)
(* call and without a usage increment; afterwards it is never selected and  *)
(* never given a provider call.                                             *)
C5_DeniedState ==
  /\ (Dispatched /\ ~lastDisp.allowed) =>
       /\ lastDisp.call = NoOutcome
       /\ users[lastDisp.user].meetingsThisMonth = lastDisp.usage
       /\ \A r \in RowsOf(lastDisp.meeting) :
            r.botSent /\ r.botJoinedAt = lastDisp.at /\ r.botId = Null
  /\ \A i \in 1..Len(upcoming) :
       \A r \in RowsOf(upcoming[i].meeting.id) : ~DenyMarked(r)
C5_DeniedStep ==
  DispatchStep =>
    /\ ~canUserScheduleMeeting(Head(upcoming).user).allowed
         => (okCalls' = okCalls /\ lastDisp'.call = NoOutcome)
    /\ \A r \in RowsOf(Head(upcoming).meeting.id) :
         DenyMarked(r) => lastDisp'.call = NoOutcome
C5_PoisonPill == []C5_DeniedState /\ [][C5_DeniedStep]_vars

\* a second tick has selected its meetings while a denied record is still
\* inside the window
C5_Witness ==
  /\ ticks = 2 /\ pc = "dispatch" /\ lastDisp = NoDisp
  /\ \E r \in meetings :
       /\ DenyMarked(r) /\ okCalls[r.id] = 0
       /\ r.botScheduled /\ r.startTime >= now /\ r.startTime <= now + DispatchWindow

(* C6: after a successful reconciliation run, every fetched live event with *)
(* a join URL and a start time has exactly one record owned by that account *)
(* under its external-event id, carrying the event's normalized fields.     *)
C6_Converged ==
  FetchOk =>
    \A ev \in LiveEvents(lastSync.events) :
      ~Incomplete(ev) =>
        LET data == EventData([id |-> lastSync.user], ev)
            own == {r \in meetings : r.userId = lastSync.user
                                     /\ r.calendarEventId = ev.id}
        IN /\ Cardinality(own) = 1
           /\ \A r \in own :
                /\ r.title = data.title /\ r.description = data.description
                /\ r.meetingUrl = data.meetingUrl /\ r.startTime = data.startTime
                /\ r.endTime = data.endTime /\ r.attendees = data.attendees

(* C7: a meeting its owner has switched off by bot-toggle (not yet sent)    *)
(* still has bot-scheduled = false after every later reconciliation run,    *)
(* and the dispatcher's selection made after the toggle never contains it.  *)
C7_ToggleOffKept ==
  [][/\ SyncStep => \A r \in meetings' : r.id \in userOff => ~r.botScheduled
     /\ (pc = "sync" /\ pc' = "dispatch") =>
          \A i \in 1..Len(upcoming') : upcoming'[i].meeting.id \notin userOff]_vars

(* C8: a reconciliation run of one account creates, updates and deletes no  *)
(* record owned by another account.                                         *)
C8_OthersUntouched ==
  [][SyncStep =>
       {r \in meetings' : r.userId # Head(syncQueue).id}
         = {r \in meetings : r.userId # Head(syncQueue).id}]_vars

(* C9: after a successful reconciliation run the store holds no record of   *)
(* the account under the external-event id of a fetched live event that     *)
(* lacks a join URL or a start time, whether or not one was stored before.  *)
C9_NeverStored ==
  FetchOk =>
    \A ev \in LiveEvents(lastSync.events) :
      Incomplete(ev) =>
        ~\E r \in meetings : r.userId = lastSync.user /\ r.calendarEventId = ev.id

(* C9 as amended: a reconciliation run writes nothing for a fetched live    *)
(* event that lacks a join URL or a start time: it creates no record under  *)
(* its external-event id and leaves a record already stored under that id   *)
(* exactly as it was.                                                       *)
C9_SkippedEventWritesNothing ==
  [][(SyncStep /\ lastSync'.status = 200) =>
       \A ev \in LiveEvents(lastSync'.events) :
         Incomplete(ev) => FindUnique(meetings', ev.id) = FindUnique(meetings, ev.id)]_vars

\* a run has just met an incomplete event whose id an earlier run had stored
C9_Witness ==
  /\ FetchOk
  /\ \E ev \in LiveEvents(lastSync.events) :
       /\ Incomplete(ev)
       /\ \E r \in meetings : r.userId = lastSync.user /\ r.calendarEventId = ev.id

(* C10: a reconciliation run whose event fetch fails with a non-auth error  *)
(* (a network error, or a status other than 2xx, 401 and 403) creates,      *)
(* updates and deletes no record and leaves the account connected with its  *)
(* access credential, so the next tick selects the account again.           *)
C10_TransientFetchError ==
  [][(SyncStep /\ lastSync'.status \in {0, 500}) =>
       /\ meetings' = meetings
       /\ users'[Head(syncQueue).id].calendarConnected
            = users[Head(syncQueue).id].calendarConnected
       /\ users'[Head(syncQueue).id].calendarConnected
       /\ users'[Head(syncQueue).id].googleAccessToken # Null]_vars

\* a run has just refreshed the credential and then met a failing fetch,
\* with records of the account in the store
C10_Witness ==
  /\ Synced /\ lastSync.status \in {0, 500} /\ lastSync.refresh = "ok"
  /\ \E r \in meetings : r.userId = lastSync.user

(* C11: reconciliation is idempotent: after a run whose fetch succeeded,    *)
(* running the reconciliation again for that account with the same fetched  *)
(* list at the same time leaves the set of records and every field of them  *)
(* as the first run left them.                                              *)
C11_Idempotent ==
  [][(SyncStep /\ lastSync'.status = 200) =>
       LET again == Reconcile([rows |-> meetings', nextId |-> nextId'],
                              Head(syncQueue), lastSync'.events, now, {})
       IN again.S.rows = meetings']_vars

\* a run of the second tick has just updated a stored record, deleted nothing
\* for a cancelled event and skipped an event, all from one list
C11_Witness ==
  /\ FetchOk /\ ticks = 2
  /\ \E i, j \in 1..Len(lastSync.events) :
       /\ lastSync.events[i].status = "cancelled"
       /\ lastSync.events[j].status # "cancelled" /\ ~Incomplete(lastSync.events[j])
       /\ \E r \in meetings : r.calendarEventId = lastSync.events[j].id /\ r.id = MeetingId(1)
  /\ nextId = 1

(* C12: after a reconciliation run whose fetch succeeded, no record is      *)
(* stored under the external-event id of an event the fetch listed as       *)
(* cancelled - a stored one was deleted, and a run that finds the event     *)
(* still cancelled does not create one - and the id is not in the seen set. *)
C12_CancelledStaysDeleted ==
  FetchOk =>
    \A i \in 1..Len(lastSync.events) :
      lastSync.events[i].status = "cancelled" =>
        /\ FindUnique(meetings, lastSync.events[i].id) = {}
        /\ lastSync.events[i].id \notin GoogleEventIds(lastSync.events)

\* the second tick has just met a cancelled event whose record was created
\* and deleted before or in this run
C12_Witness ==
  /\ FetchOk /\ ticks = 2
  /\ \E i \in 1..Len(lastSync.events) : lastSync.events[i].status = "cancelled"
  /\ nextId = 1 /\ meetings = {}

(* C13: the quota evaluator agrees with the reference policy on every      *)
(* tier, subscription status and usage: deny the free tier, deny every      *)
(* tier (premium too) without an active subscription, deny starter at 10    *)
(* or more and pro at 30 or more, allow otherwise (premium at any usage).   *)
QuotaPolicy(tier, status, usage) ==
  /\ tier # "free"
  /\ status = "active"
  /\ tier = "starter" => usage < 10
  /\ tier = "pro" => usage < 30
C13_QuotaPolicy ==
  [][DispatchStep =>
       LET user == Head(upcoming).user
       IN lastDisp'.allowed = QuotaPolicy(user.currentPlan, user.subscriptionStatus,
                                          user.meetingsThisMonth)]_vars

\* the evaluator has just denied a starter account at usage 10
C13_Witness ==
  /\ Dispatched /\ ~lastDisp.allowed /\ lastDisp.usage = 10
  /\ users[lastDisp.user].currentPlan = "starter"
  /\ users[lastDisp.user].subscriptionStatus = "active"

(* C14: when the credential is inside the margin and the refresh exchange   *)
(* fails (the call throws, or the response carries no access token), the    *)
(* run leaves the account with the connected flag cleared and the stored    *)
(* access credential cleared, returns no credential, and fetches nothing.   *)
C14_RefreshFailureDeauthorizes ==
  (Synced /\ lastSync.refresh \in {"rejected", "throws"}) =>
    /\ ~users[lastSync.user].calendarConnected
    /\ users[lastSync.user].googleAccessToken = Null
    /\ lastSync.token = Null
    /\ lastSync.status = -1

(* C15: when the credential is inside the margin and the account has no     *)
(* refresh credential, the run clears the connected flag and the access     *)
(* credential, returns no credential, does not call the token endpoint and  *)
(* fetches nothing.                                                         *)
C15_NoRefreshCredential ==
  [][(SyncStep /\ Head(syncQueue).googleTokenExpiry <= now + 2
               /\ Head(syncQueue).googleRefreshToken = Null) =>
       /\ ~users'[Head(syncQueue).id].calendarConnected
       /\ users'[Head(syncQueue).id].googleAccessToken = Null
       /\ lastSync'.refresh = "noRefreshToken"
       /\ lastSync'.token = Null
       /\ lastSync'.status = -1
       /\ meetings' = meetings]_vars

\* a run has just found the credential about to expire and no refresh
\* credential, and has disconnected the account
C15_Witness ==
  /\ Synced /\ lastSync.refresh = "noRefreshToken"
  /\ users[lastSync.user].googleRefreshToken = Null
  /\ ~users[lastSync.user].calendarConnected

(* C16: a run for an account whose stored expiry is more than ten minutes   *)
(* after now makes no token-endpoint call, fetches with the stored access   *)
(* credential and leaves the stored access credential and expiry alone      *)
(* (and the connected flag, up to the fetch); a run for an account whose    *)
(* expiry is at or inside the margin attempts a refresh, and fetches only   *)
(* after the refresh succeeded.                                             *)
C16_RefreshOnlyInsideMargin ==
  [][SyncStep =>
       LET user == Head(syncQueue)
       IN /\ user.googleTokenExpiry > now + 2 =>
               /\ lastSync'.refresh = NoOutcome
               /\ lastSync'.status # -1
               /\ lastSync'.token = user.googleAccessToken
               /\ users'[user.id].googleAccessToken = users[user.id].googleAccessToken
               /\ users'[user.id].googleTokenExpiry = users[user.id].googleTokenExpiry
               /\ lastSync'.status \notin {401, 403} =>
                    users'[user.id].calendarConnected = users[user.id].calendarConnected
          /\ user.googleTokenExpiry <= now + 2 =>
               /\ lastSync'.refresh # NoOutcome
               /\ lastSync'.status # -1 => lastSync'.refresh = "ok"]_vars

\* a run has just refreshed a credential that expires exactly ten minutes
\* after now, and fetched
C16_Witness ==
  /\ Synced /\ lastSync.refresh = "ok" /\ lastSync.status = 200
  /\ lastSync.at = 0 /\ ticks = 1
  /\ \E l \in Lifetimes : users[lastSync.user].googleTokenExpiry = l

(* C17: when the refresh exchange succeeds, the account stores the new      *)
(* access credential and the expiry now + reported lifetime, the refresh    *)
(* leaves the connected flag set, and the fetch of the same run is made     *)
(* with the new credential, not the old one.                                *)
C17_RefreshSuccess ==
  [][(SyncStep /\ lastSync'.refresh = "ok") =>
       LET user == Head(syncQueue)
       IN /\ lastSync'.status # -1
          /\ lastSync'.token # Null
          /\ lastSync'.token # user.googleAccessToken
          /\ users'[user.id].googleAccessToken = lastSync'.token
          /\ \E l \in Lifetimes : users'[user.id].googleTokenExpiry = now + l
          /\ lastSync'.status \notin {401, 403} => users'[user.id].calendarConnected]_vars

\* a run has just refreshed the credential and reconciled a fetched event
C17_Witness ==
  /\ Synced /\ lastSync.refresh = "ok" /\ lastSync.status = 200
  /\ users[lastSync.user].googleAccessToken = "tokB"
  /\ \E r \in meetings : r.userId = lastSync.user

(* C18: a run whose event fetch answers 401 or 403 deauthorizes the account *)
(* as a credential failure does - connected flag cleared and access         *)
(* credential cleared - and creates, updates and deletes no record; both    *)
(* statuses leave the account in the same state.                            *)
C18_AuthErrorDeauthorizes ==
  [][(SyncStep /\ lastSync'.status \in {401, 403}) =>
       /\ ~users'[Head(syncQueue).id].calendarConnected
       /\ users'[Head(syncQueue).id].googleAccessToken = Null
       /\ meetings' = meetings]_vars

(* C19: when two invocations of the handler overlap, no record gets more    *)
(* than one provider call, and an invocation observes "allow" for an        *)
(* account with one quota slot left (usage = cap - 1) only while that slot  *)
(* is still free, so that the two never both observe "allow" for it.        *)
C19_OneCallPerRecord == \A m \in MeetingIds : okCalls[m] <= 1
C19_AllowOnlyFreeSlot ==
  DispatchStep =>
    LET user == Head(upcoming).user
    IN (/\ FiniteCap(user.currentPlan)
        /\ user.meetingsThisMonth = CapOf(user.currentPlan) - 1
        /\ lastDisp'.allowed)
         => users[user.id].meetingsThisMonth = CapOf(user.currentPlan) - 1
C19_OverlapSerialized == []C19_OneCallPerRecord /\ [][C19_AllowOnlyFreeSlot]_vars

(* C20: an invocation that gets through both loops - the account query and  *)
(* the due-meeting query succeeded - returns success, whatever failed for   *)
(* single accounts or meetings; an error is returned only from outside the  *)
(* loops, where the account query or the due-meeting query is made.         *)
C20_Returned ==
  /\ (pc = "dispatch" /\ pc' = "idle") => response' = 200
  /\ (response' = 500 /\ response # 500) =>
        \/ pc = "idle"
        \/ pc = "sync" /\ syncQueue = <<>>
  /\ (SyncStep \/ DispatchStep) => response' = response
C20_LoopsIsolated == [][C20_Returned]_vars

\* an invocation has returned success although the refresh of account 2
\* failed and the usage write for a dispatched meeting of account 1 failed
C20_Witness ==
  /\ response = 200 /\ pc = "idle" /\ ticks = 1
  /\ ~users[<<"u", 2>>].calendarConnected
  /\ \E r \in meetings : r.botSent /\ r.botId = "bot"
  /\ users[<<"u", 1>>].meetingsThisMonth = 9

(* C21: a failure while one account is reconciled or one meeting is         *)
(* dispatched does not abort the invocation: the run of an account, failed  *)
(* or not, hands over to the remaining accounts of the loop; the dispatcher *)
(* pass starts when all accounts have had their run; the handling of a      *)
(* meeting, failed or not, hands over to the remaining selected meetings;   *)
(* the invocation returns when all of them have been handled.               *)
C21_Step ==
  /\ (pc = "sync" /\ syncQueue # <<>> /\ lastSync'.user = Head(syncQueue).id) =>
        (pc' = "sync" /\ syncQueue' = Tail(syncQueue) /\ response' = response)
  /\ (pc = "dispatch" /\ upcoming # <<>> /\ lastDisp'.meeting = Head(upcoming).meeting.id) =>
        (pc' = "dispatch" /\ upcoming' = Tail(upcoming) /\ response' = response)
  /\ (pc = "sync" /\ pc' = "dispatch") => syncQueue = <<>>
  /\ (pc = "dispatch" /\ pc' = "idle") => upcoming = <<>>
C21_FailureIsolation == [][C21_Step]_vars

\* the second of two selected meetings has just been handled in a tick in
\* which the refresh of account 2 failed and the provider call for the first
\* meeting failed
C21_Witness ==
  /\ Dispatched /\ ticks = 1 /\ upcoming = <<>>
  /\ ~users[<<"u", 2>>].calendarConnected
  /\ Cardinality(meetings) = 2
  /\ \E r \in meetings : r.id # lastDisp.meeting /\ ~r.botSent

(* C22: in every reachable state the store holds at most one record for an  *)
(* account and an external-event id.                                        *)
C22_OneRecordPerEvent ==
  \A r1, r2 \in meetings :
    (r1.userId = r2.userId /\ r1.calendarEventId = r2.calendarEventId) => r1 = r2

\* the second tick has just reconciled two events that both already had
\* their record
C22_Witness ==
  /\ FetchOk /\ ticks = 2 /\ nextId = 2
  /\ \A e \in EventIds :
       /\ \E ev \in LiveEvents(lastSync.events) : ev.id = e /\ ~Incomplete(ev)
       /\ \E r \in meetings : r.calendarEventId = e /\ r.userId = lastSync.user

(* C23: the dispatcher selects, and calls the provider for, only meetings   *)
(* that at the selection of the tick start within [now, now + 5 min], are   *)
(* bot-scheduled, not yet sent and have a join URL; a meeting whose start   *)
(* time has passed gets no provider call from any later tick.               *)
C23_Eligible(m, t) ==
  /\ m.startTime >= t /\ m.startTime <= t + 1
  /\ m.botScheduled /\ ~m.botSent /\ m.meetingUrl # Null
C23_Step ==
  /\ (pc = "sync" /\ pc' = "dispatch") =>
        \A i \in 1..Len(upcoming') :
          upcoming'[i].meeting \in meetings /\ C23_Eligible(upcoming'[i].meeting, now)
  /\ (DispatchStep /\ lastDisp'.call # NoOutcome) =>
        /\ C23_Eligible(Head(upcoming).meeting, now)
        /\ \A r \in RowsOf(Head(upcoming).meeting.id) : r.startTime >= now
C23_OnlyEligibleDispatched == [][C23_Step]_vars

\* a tick has made its selection and left out a meeting that was never
\* dispatched and whose start time has passed
C23_Witness ==
  /\ pc = "dispatch" /\ lastDisp = NoDisp /\ ticks = 2
  /\ \E r \in meetings :
       /\ r.startTime < now /\ r.botScheduled /\ ~r.botSent /\ okCalls[r.id] = 0
       /\ \A i \in 1..Len(upcoming) : upcoming[i].meeting.id # r.id
  /\ upcoming # <<>>

(* C24: a failed bot-deployment call (a non-2xx answer or a network error)  *)
(* leaves the record's bot-sent, bot id and bot-joined time and the         *)
(* account's usage counter as they were, and the next tick that makes its   *)
(* selection while the start time is still within [now, now + 5 min]        *)
(* selects the meeting again.                                               *)
C24_Step ==
  /\ (DispatchStep /\ lastDisp'.call \in {"http_error", "network"}) =>
        /\ meetings' = meetings
        /\ users' = users
  /\ (pc = "sync" /\ pc' = "dispatch") =>
        \A r \in meetings :
          (/\ r.id \in failed /\ ~r.botSent /\ r.botScheduled /\ r.meetingUrl # Null
           /\ r.startTime >= now /\ r.startTime <= now + 1)
            => \E i \in 1..Len(upcoming') : upcoming'[i].meeting = r
C24_FailedCallRetried == [][C24_Step]_vars

\* the second tick has selected a meeting whose call failed in the first
C24_Witness ==
  /\ pc = "dispatch" /\ lastDisp = NoDisp /\ ticks = 2
  /\ \E i \in 1..Len(upcoming) :
       /\ upcoming[i].meeting.id \in failed
       /\ upcoming[i].meeting.startTime = now
       /\ okCalls[upcoming[i].meeting.id] = 0

(* C25: a reconciliation run leaves bot-scheduled of a record whose         *)
(* bot-sent is true as it was, and changes bot-scheduled of no record from  *)
(* true to false.                                                           *)
C25_Step ==
  SyncStep =>
    \A r \in meetings : \A q \in meetings' :
      q.id = r.id =>
        /\ r.botSent => q.botScheduled = r.botScheduled
        /\ r.botScheduled => q.botScheduled
C25_SentKeepsSchedule == [][C25_Step]_vars

\* a run has just updated a record that was sent and then switched off
C25_Witness ==
  /\ FetchOk
  /\ \E r \in meetings :
       /\ r.botSent /\ ~r.botScheduled /\ r.userId = lastSync.user
       /\ \E ev \in LiveEvents(lastSync.events) :
            ev.id = r.calendarEventId /\ ~Incomplete(ev)

(* C26: when one fetched list holds a cancelled event whose record is       *)
(* stored and a qualifying event under an id that has no record, in either  *)
(* order, the run leaves no record under the old id and exactly one under   *)
(* the new id, owned by the account, with bot-sent false, no bot id and no  *)
(* bot-joined time.                                                         *)
C26_Step ==
  (SyncStep /\ lastSync'.status = 200) =>
    \A i, j \in 1..Len(lastSync'.events) :
      LET old == lastSync'.events[i]
          new == lastSync'.events[j]
      IN (/\ old.status = "cancelled" /\ FindUnique(meetings, old.id) # {}
          /\ new.status # "cancelled" /\ ~Incomplete(new)
          /\ FindUnique(meetings, new.id) = {})
           => /\ FindUnique(meetings', old.id) = {}
              /\ Cardinality(FindUnique(meetings', new.id)) = 1
              /\ \A r \in FindUnique(meetings', new.id) :
                   /\ r.userId = Head(syncQueue).id
                   /\ ~r.botSent /\ r.botId = Null /\ r.botJoinedAt = NoTime
                   /\ \A q \in meetings : q.id # r.id
C26_DeleteThenCreate == [][C26_Step]_vars

\* a run has just met the new event first and the cancelled one after it:
\* the first record is gone and the second record is the only one
C26_Witness ==
  /\ FetchOk /\ Len(lastSync.events) = 2
  /\ lastSync.events[1].status # "cancelled" /\ ~Incomplete(lastSync.events[1])
  /\ lastSync.events[2].status = "cancelled"
  /\ nextId = 2 /\ Cardinality(meetings) = 1
  /\ \A r \in meetings :
       r.id = MeetingId(2) /\ r.calendarEventId = lastSync.events[1].id

(* C27: once a run has cleared the connected flag of an account, no later   *)
(* tick selects the account, so that no later tick refreshes its            *)
(* credential, fetches its events or reconciles its calendar (nothing in    *)
(* the engine sets the flag again).                                         *)
C27_Step ==
  /\ (pc = "idle" /\ pc' = "sync") =>
        \A i \in 1..Len(syncQueue') : users[syncQueue'[i].id].calendarConnected
  /\ (pc = "sync" /\ syncQueue # <<>> /\ lastSync'.user = Head(syncQueue).id) =>
        users[Head(syncQueue).id].calendarConnected
  /\ \A u \in UserIds : users'[u].calendarConnected => users[u].calendarConnected
C27_DisconnectedIsTerminal == [][C27_Step]_vars

\* the second tick has selected its accounts and left out an account that an
\* upstream auth error or a failed refresh disconnected, its token still stored
C27_Witness ==
  /\ pc = "sync" /\ ticks = 2 /\ lastSync = NoSync
  /\ \E u \in UserIds :
       /\ ~users[u].calendarConnected /\ users[u].googleAccessToken # Null
       /\ \A i \in 1..Len(syncQueue) : syncQueue[i].id # u
  /\ syncQueue # <<>>

(* C28: the dispatcher makes its selection after the last account of the    *)
(* tick has been reconciled; a record whose event a successful fetch        *)
(* reports as cancelled is gone from the store when that run ends, its row  *)
(* id is never used again, and the provider is called only for records      *)
(* that are in the store: the cancelled meeting gets no call in that tick   *)
(* or later.                                                                *)
C28_Step ==
  /\ (pc = "sync" /\ pc' = "dispatch") => syncQueue = <<>>
  /\ (SyncStep /\ lastSync'.status = 200) =>
        \A i \in 1..Len(lastSync'.events) :
          lastSync'.events[i].status = "cancelled" =>
            \A r \in FindUnique(meetings, lastSync'.events[i].id) :
              \A q \in meetings' : q.id # r.id
  /\ \A q \in meetings' : (\A r \in meetings : r.id # q.id) => q.id[2] > nextId
  /\ (DispatchStep /\ lastDisp'.call # NoOutcome) =>
        \E r \in meetings : r.id = Head(upcoming).meeting.id
C28_CancelledNeverDispatched == [][C28_Step]_vars

\* a tick has made a non-empty selection after a run of it deleted the
\* never-dispatched record of a cancelled event
C28_Witness ==
  /\ pc = "dispatch" /\ lastDisp = NoDisp /\ upcoming # <<>>
  /\ \E n \in 1..nextId :
       /\ \A r \in meetings : r.id # MeetingId(n)
       /\ okCalls[MeetingId(n)] = 0

(* C29: refreshGoogleToken raises no error to its caller: a run whose       *)
(* refresh did not yield a credential, also when the store write that       *)
(* disconnects the account failed, got the null result and no error.        *)
C29_RefreshNeverThrows ==
  (Synced /\ lastSync.refresh # NoOutcome /\ lastSync.status = -1) => ~lastSync.threw

(* C30: field ownership: a reconciliation run changes bot-sent, bot id and  *)
(* bot-joined time of no record that stays in the store and the usage       *)
(* counter of no account; a dispatcher step changes no account's access     *)
(* credential, expiry or connected flag and no record's title, join URL,    *)
(* times or attendees; the usage counter changes only in dispatcher steps   *)
(* and then by +1.                                                          *)
C30_Step ==
  /\ SyncStep =>
        /\ \A r \in meetings : \A q \in meetings' :
             q.id = r.id =>
               /\ q.botSent = r.botSent /\ q.botId = r.botId
               /\ q.botJoinedAt = r.botJoinedAt
        /\ \A u \in UserIds : users'[u].meetingsThisMonth = users[u].meetingsThisMonth
  /\ DispatchStep =>
        /\ \A u \in UserIds :
             /\ users'[u].googleAccessToken = users[u].googleAccessToken
             /\ users'[u].googleTokenExpiry = users[u].googleTokenExpiry
             /\ users'[u].calendarConnected = users[u].calendarConnected
        /\ {r.id : r \in meetings'} = {r.id : r \in meetings}
        /\ \A r \in meetings : \A q \in meetings' :
             q.id = r.id =>
               /\ q.title = r.title /\ q.meetingUrl = r.meetingUrl
               /\ q.startTime = r.startTime /\ q.endTime = r.endTime
               /\ q.attendees = r.attendees
  /\ \A u \in UserIds :
       users'[u].meetingsThisMonth # users[u].meetingsThisMonth =>
         /\ DispatchStep
         /\ users'[u].meetingsThisMonth = users[u].meetingsThisMonth + 1
C30_FieldOwnership == [][C30_Step]_vars

\* a run has just updated, from a fetched event, a record the dispatcher
\* had marked sent with a bot id
C30_Witness ==
  /\ FetchOk /\ ticks = 2
  /\ \E r \in meetings :
       /\ r.botSent /\ r.botId = "bot" /\ r.userId = lastSync.user
       /\ \E ev \in LiveEvents(lastSync.events) :
            /\ ev.id = r.calendarEventId /\ ~Incomplete(ev)
            /\ ev.startDateTime = r.startTime
            /\ r.botJoinedAt < r.startTime

====
